---------------------------- MODULE Spec2Model ----------------------------
(***************************************************************************)
(* State-machine model of vgg_gan.py: the loss taps (ContentLoss,          *)
(* StyleLoss), the Normalization stage, the pipeline assembly              *)
(* get_style_model_and_losses and the optimisation loop                    *)
(* run_style_transfer.                                                     *)
(*                                                                         *)
(* Tensors are sequences of integers.  A pixel value g of the grid stands  *)
(* for the float g / PixMax, so the range [0,1] is 0..PixMax; pixel values *)
(* are finite numbers (no NaN).  The layers borrowed from the extractor    *)
(* are opaque deterministic, shape-preserving functions.  A layer name     *)
(* 'conv_3' is the pair <<"conv", 3>>.                                     *)
(***************************************************************************)
EXTENDS Integers, Sequences, FiniteSets, TLC

(* ------------------------------ bounds --------------------------------- *)
\* longest extractor handed to get_style_model_and_losses directly
MaxLayers == 3
\* longest extractor handed to run_style_transfer
RunLayers == 1
\* number of pixels of an image
NPix == 1
\* largest change of one pixel by one optimizer step, in grid units
MaxDelta == 1
\* the iteration budgets tried are 0..SmallBudget and the reporting
\* period itself
SmallBudget == 1

(* ------------------------- program constants --------------------------- *)
\* grid value of the pixel value 1.0 (clamp_(0, 1))
PixMax == 2
\* cnn_normalization_mean / cnn_normalization_std in grid units
NormMean == 1
NormStd == 1
\* step_i % 50
ReportEvery == 50
\* defaults of style_weight and content_weight
StyleWeight == 1000000
ContentWeight == 1

VARIABLES
    entry,           \* which function the caller invokes: "asm" or "run"
    cnn,             \* the extractor: sequence of layer kinds
    content_layers,  \* requested content tap names
    style_layers,    \* requested style tap names
    num_steps,       \* iteration budget
    input_img,       \* the output image (mutated in place)
    pc,              \* position in the code
    model,           \* nn.Sequential under construction: <<[key, mod]>>
    taps,            \* the ContentLoss / StyleLoss objects, by creation order
    content_losses,  \* list of tap ids
    style_losses,    \* list of tap ids
    i,               \* the running index (and the trim loop's index)
    pos,             \* position of the layer walk in cnn.children()
    names,           \* the name given to each layer walked so far
    ret,             \* what get_style_model_and_losses returned
    optimizer,       \* TRUE once optim.Adam(...) was created
    grad,            \* input_img.grad: "none", "fresh" or "used"
    step_i,          \* the loop counter
    style_score,     \* [tensor, val]
    content_score,   \* [tensor, val]
    nclamp, nfwd, nbwd, nstep, \* clamps, forward passes, backward passes, optimizer steps
    stdout,          \* lines printed by the loop
    error            \* the exception that ended the call, or "none"

vars == <<entry, cnn, content_layers, style_layers, num_steps,
          input_img, pc, model, taps, content_losses, style_losses, i, pos,
          names, ret, optimizer, grad, step_i, style_score, content_score,
          nclamp, nfwd, nbwd, nstep, stdout, error>>

(* ------------------------------ helpers -------------------------------- *)
Max(a, b) == IF a >= b THEN a ELSE b
Min(a, b) == IF a <= b THEN a ELSE b

RECURSIVE SumSeq(_)
SumSeq(s) == IF s = <<>> THEN 0 ELSE Head(s) + SumSeq(Tail(s))

RECURSIVE SeqsUpTo(_, _)
SeqsUpTo(S, n) ==
    IF n = 0 THEN {<<>>}
    ELSE LET shorter == SeqsUpTo(S, n - 1)
         IN  shorter \cup {Append(s, x) : s \in {t \in shorter : Len(t) = n - 1}, x \in S}

NoRet == [returned |-> FALSE, model |-> <<>>, style_losses |-> <<>>, content_losses |-> <<>>]
NoLoss == [set |-> FALSE, val |-> 0]
IntZero == [tensor |-> FALSE, val |-> 0]

(* --------------------------- tensor functions -------------------------- *)
Neighbour(k, n) == (k % n) + 1

\* F.mse_loss: mean of the squared differences
mse_loss(a, b) ==
    SumSeq([k \in 1..Len(a) |-> (a[k] - b[k]) * (a[k] - b[k])]) \div Len(a)

\* utils.gram_matrix: the channel inner products, normalised by C*N; the
\* NPix values are NPix channels of one position each
gram_matrix(v) ==
    [k \in 1..(Len(v) * Len(v)) |->
        (v[((k - 1) \div Len(v)) + 1] * v[((k - 1) % Len(v)) + 1]) \div Len(v)]

\* Normalization.forward
NormForward(v) == [k \in 1..Len(v) |-> (v[k] - NormMean) \div NormStd]

\* the borrowed layers: opaque deterministic functions of the extractor
LayerForward(kind, v) ==
    CASE kind = "conv" -> [k \in 1..Len(v) |-> 2 * v[k] + v[Neighbour(k, Len(v))] - 1]
      [] kind = "relu" -> [k \in 1..Len(v) |-> Max(0, v[k])]
      [] kind = "pool" -> [k \in 1..Len(v) |-> Max(v[k], v[Neighbour(k, Len(v))])]
      [] kind = "bn"   -> [k \in 1..Len(v) |-> v[k] + 1]
      [] OTHER         -> v

(* ----------------------------- loss taps ------------------------------- *)
\* ContentLoss.__init__ / StyleLoss.__init__
NewTap(type, target, layer) ==
    [type |-> type,
     target |-> IF type = "style" THEN gram_matrix(target) ELSE target,
     layer |-> layer,
     loss |-> NoLoss]

TapLoss(tap, x) ==
    [set |-> TRUE,
     val |-> IF tap.type = "style" THEN mse_loss(gram_matrix(x), tap.target)
             ELSE mse_loss(x, tap.target)]

\* a forward that hands on the loss target in place of its input
TapForwardTarget(tap, x) ==
    [out |-> IF tap.type = "style" THEN [k \in 1..Len(x) |-> tap.target[k]] ELSE tap.target,
     tap |-> [tap EXCEPT !.loss = TapLoss(tap, x)]]

\* ContentLoss.forward / StyleLoss.forward: store the loss, return the input
TapForward(tap, x) ==
    [out |-> x, tap |-> [tap EXCEPT !.loss = TapLoss(tap, x)]]

(* ----------------------------- the pipeline ---------------------------- *)
NormStage == [t |-> "norm", kind |-> "norm", src |-> 0, id |-> 0]
LayerStage(kind, k) == [t |-> "layer", kind |-> kind, src |-> k, id |-> 0]
TapStage(type, k, id) == [t |-> "tap", kind |-> type, src |-> k, id |-> id]

IsTap(stage) == stage.mod.t = "tap"

\* nn.Module.add_module: self._modules[name] = module; an existing key keeps
\* its position and gets the new module
add_module(m, key, mod) ==
    IF \E j \in 1..Len(m) : m[j].key = key
    THEN [j \in 1..Len(m) |-> IF m[j].key = key THEN [key |-> key, mod |-> mod] ELSE m[j]]
    ELSE Append(m, [key |-> key, mod |-> mod])

\* nn.Sequential.forward from stage j on
RECURSIVE RunFrom(_, _, _, _)
RunFrom(m, j, x, tp) ==
    IF j > Len(m) THEN [out |-> x, taps |-> tp]
    ELSE LET s == m[j].mod IN
         IF s.t = "tap"
         THEN LET r == TapForward(tp[s.id], x)
              IN  RunFrom(m, j + 1, r.out, [tp EXCEPT ![s.id] = r.tap])
         ELSE IF s.t = "norm"
         THEN RunFrom(m, j + 1, NormForward(x), tp)
         ELSE RunFrom(m, j + 1, LayerForward(s.kind, x), tp)

\* model(img): the output value and the taps with their losses overwritten
ModelCall(m, img, tp) == RunFrom(m, 1, img, tp)

(* ------------------------------ inputs --------------------------------- *)
Kinds == {"conv", "relu", "pool", "bn", "other"}

\* 'conv_{}'.format(i) and its siblings
Name(prefix, n) == <<prefix, n>>

\* names a direct caller of get_style_model_and_losses may request
TapNames == {Name("conv", 1), Name("relu", 1), Name("conv", 2)}
\* names a caller of run_style_transfer may request
RunTapNames == {Name("conv", 1)}

PixLo == 0 - MaxDelta
PixHi == PixMax + MaxDelta
Images == [1..NPix -> PixLo..PixHi]

\* content_img and style_img, as image_loader yields them: within [0,1]
ContentImg == [k \in 1..NPix |-> PixMax]
StyleImg == [k \in 1..NPix |-> 0]

Budgets == (0..SmallBudget) \cup {ReportEvery}

(* ---------------------- get_style_model_and_losses --------------------- *)
\* every layer kind counted as known
RecognizedAny(kind) == TRUE

\* the isinstance chain: Conv2d, ReLU, MaxPool2d, BatchNorm2d, else raise
Recognized(kind) == kind \in {"conv", "relu", "pool", "bn"}

Prefix(kind) ==
    CASE kind = "conv" -> "conv"
      [] kind = "relu" -> "relu"
      [] kind = "pool" -> "pool"
      [] kind = "bn"   -> "bn"
      [] OTHER         -> "layer"

\* an index that also moves on pooling layers
NextIndexPool(kind, n) == IF kind \in {"conv", "pool"} THEN n + 1 ELSE n

\* i += 1 in the Conv2d branch only
NextIndex(kind, n) == IF kind = "conv" THEN n + 1 ELSE n

\* the body of `if name in content_layers:` / `if name in style_layers:`
\* on the locals st = [model, taps, list]
AddTap(st, type, img, layer, n) ==
    LET r == ModelCall(st.model, img, st.taps)
        tp == Append(r.taps, NewTap(type, r.out, layer))
        id == Len(tp)
        key == Name(IF type = "content" THEN "content_loss" ELSE "style_loss", n)
    IN  [model |-> add_module(st.model, key, TapStage(type, layer, id)),
         taps |-> tp,
         list |-> Append(st.list, id)]

\* the backward scan `for i in range(len(model) - 1, -1, -1)`: the value i
\* has when the loop ends (0-based)
RECURSIVE ScanBack(_, _)
ScanBack(m, j) ==
    IF IsTap(m[j + 1]) THEN j
    ELSE IF j = 0 THEN 0
    ELSE ScanBack(m, j - 1)

\* a scan that keeps the whole pipeline
TrimIndexKeepAll(m) == Len(m) - 1

TrimIndex(m) == ScanBack(m, Len(m) - 1)

\* model[:(i + 1)]
Slice(m, n) == SubSeq(m, 1, Min(n + 1, Len(m)))

Init ==
    /\ entry \in {"asm", "run"}
    /\ cnn \in SeqsUpTo(Kinds, IF entry = "asm" THEN MaxLayers ELSE RunLayers)
    /\ content_layers \in SUBSET (IF entry = "asm" THEN TapNames ELSE RunTapNames)
    /\ style_layers \in SUBSET (IF entry = "asm" THEN TapNames ELSE RunTapNames)
    /\ num_steps \in (IF entry = "asm" THEN {0} ELSE Budgets)
    /\ input_img \in (IF entry = "asm" THEN {ContentImg} ELSE Images)
    /\ pc = "begin"
    /\ model = <<>>
    /\ taps = <<>>
    /\ content_losses = <<>>
    /\ style_losses = <<>>
    /\ i = 0
    /\ pos = 0
    /\ names = <<>>
    /\ ret = NoRet
    /\ optimizer = FALSE
    /\ grad = "none"
    /\ step_i = 0
    /\ style_score = IntZero
    /\ content_score = IntZero
    /\ nclamp = 0
    /\ nfwd = 0
    /\ nbwd = 0
    /\ nstep = 0
    /\ stdout = <<>>
    /\ error = "none"

inputs == <<entry, cnn, content_layers, style_layers, num_steps>>
counts == <<nclamp, nfwd, nbwd, nstep>>
loopvars == <<optimizer, grad, step_i, style_score, content_score, counts, stdout>>

\* lines 113-126: the copy of the extractor, the normalization stage, the
\* empty lists, model = nn.Sequential(normalization), i = 0
Begin ==
    /\ pc = "begin"
    /\ model' = <<[key |-> Name("0", 0), mod |-> NormStage]>>
    /\ content_losses' = <<>>
    /\ style_losses' = <<>>
    /\ i' = 0
    /\ pos' = 1
    /\ pc' = "walk"
    /\ UNCHANGED <<inputs, input_img, taps, names, ret, loopvars, error>>

\* one pass of `for layer in cnn.children()`, lines 127-157
WalkLayer ==
    /\ pc = "walk"
    /\ pos <= Len(cnn)
    /\ Recognized(cnn[pos])
    /\ LET layer == cnn[pos]
           n == NextIndex(layer, i)
           name == Name(Prefix(layer), n)
           st0 == [model |-> add_module(model, name, LayerStage(layer, pos)),
                   taps |-> taps, list |-> content_losses]
           st1 == IF name \in content_layers
                  THEN AddTap(st0, "content", ContentImg, pos, n)
                  ELSE st0
           st2 == IF name \in style_layers
                  THEN AddTap([st1 EXCEPT !.list = style_losses], "style", StyleImg, pos, n)
                  ELSE [st1 EXCEPT !.list = style_losses]
       IN  /\ i' = n
           /\ names' = Append(names, name)
           /\ model' = st2.model
           /\ taps' = st2.taps
           /\ content_losses' = st1.list
           /\ style_losses' = st2.list
    /\ pos' = pos + 1
    /\ UNCHANGED <<inputs, input_img, pc, ret, loopvars, error>>

\* line 139: raise RuntimeError('Unrecognized layer: ...')
WalkRaise ==
    /\ pc = "walk"
    /\ pos <= Len(cnn)
    /\ ~Recognized(cnn[pos])
    /\ pc' = "error"
    /\ error' = "RuntimeError"
    /\ UNCHANGED <<inputs, input_img, model, taps, content_losses, style_losses,
                   i, pos, names, ret, loopvars>>

\* lines 160-165: trim after the last tap and return
Trim ==
    /\ pc = "walk"
    /\ pos > Len(cnn)
    /\ i' = TrimIndex(model)
    /\ model' = Slice(model, i')
    /\ ret' = [returned |-> TRUE, model |-> model',
               style_losses |-> style_losses, content_losses |-> content_losses]
    /\ pc' = IF entry = "asm" THEN "done" ELSE "optimizer"
    /\ UNCHANGED <<inputs, input_img, taps, content_losses, style_losses, pos,
                   names, loopvars, error>>

(* -------------------------- run_style_transfer ------------------------- *)
\* a clamp that only cuts values above 1
ClampUpper(img) == [k \in 1..Len(img) |-> Min(img[k], PixMax)]

\* a clamp that does nothing
ClampNone(img) == img

\* input_img.data.clamp_(0, 1)
Clamp(img) == [k \in 1..Len(img) |-> Max(0, Min(img[k], PixMax))]

InRange(img) == \A k \in 1..Len(img) : 0 <= img[k] /\ img[k] <= PixMax

\* a loop bound that runs exactly num_steps iterations
LoopCondStrict(s, n) == s < n

\* while step_i <= num_steps
LoopCond(s, n) == s <= n

\* score = 0; for l in losses: score += l.loss
RECURSIVE SumLosses(_, _)
SumLosses(ids, tp) ==
    IF ids = <<>> THEN IntZero
    ELSE [tensor |-> TRUE, val |-> tp[Head(ids)].loss.val + SumLosses(Tail(ids), tp).val]

\* loss = style_score*style_weight + content_score*content_weight
TotalLoss(ss, cs) ==
    [tensor |-> ss.tensor \/ cs.tensor,
     val |-> ss.val * StyleWeight + cs.val * ContentWeight]

asmvars == <<model, taps, content_losses, style_losses, i, pos, names, ret>>

\* lines 180-184: the optimizer over [input_img.requires_grad_()], step_i = 0
MakeOptimizer ==
    /\ pc = "optimizer"
    /\ optimizer' = TRUE
    /\ step_i' = 0
    /\ pc' = "while"
    /\ UNCHANGED <<inputs, input_img, asmvars, grad, style_score, content_score,
                   counts, stdout, error>>

\* lines 185-186: the loop test holds; clamp the image in place
LoopClamp ==
    /\ pc = "while"
    /\ LoopCond(step_i, num_steps)
    /\ input_img' = Clamp(input_img)
    /\ nclamp' = nclamp + 1
    /\ pc' = "zero_grad"
    /\ UNCHANGED <<inputs, asmvars, optimizer, grad, step_i, style_score,
                   content_score, nfwd, nbwd, nstep, stdout, error>>

\* line 188: optimizer.zero_grad()
ZeroGrad ==
    /\ pc = "zero_grad"
    /\ grad' = "none"
    /\ pc' = "forward"
    /\ UNCHANGED <<inputs, input_img, asmvars, optimizer, step_i, style_score,
                   content_score, counts, stdout, error>>

\* line 189: model(input_img); the output is dropped, the taps keep their loss
Forward ==
    /\ pc = "forward"
    /\ taps' = ModelCall(ret.model, input_img, taps).taps
    /\ nfwd' = nfwd + 1
    /\ pc' = "aggregate"
    /\ UNCHANGED <<inputs, input_img, model, content_losses, style_losses, i, pos,
                   names, ret, optimizer, grad, step_i, style_score, content_score,
                   nclamp, nbwd, nstep, stdout, error>>

\* lines 192-199: the two scores and the weighted total
Aggregate ==
    /\ pc = "aggregate"
    /\ style_score' = SumLosses(ret.style_losses, taps)
    /\ content_score' = SumLosses(ret.content_losses, taps)
    /\ pc' = "backward"
    /\ UNCHANGED <<inputs, input_img, asmvars, optimizer, grad, step_i,
                   counts, stdout, error>>

\* line 200: loss.backward() on a tensor
Backward ==
    /\ pc = "backward"
    /\ TotalLoss(style_score, content_score).tensor
    /\ grad' = "fresh"
    /\ nbwd' = nbwd + 1
    /\ pc' = "step"
    /\ UNCHANGED <<inputs, input_img, asmvars, optimizer, step_i, style_score,
                   content_score, nclamp, nfwd, nstep, stdout, error>>

\* line 200: with no tap in either list loss is the int 0, which has no
\* backward(): AttributeError
BackwardRaise ==
    /\ pc = "backward"
    /\ ~TotalLoss(style_score, content_score).tensor
    /\ pc' = "error"
    /\ error' = "AttributeError"
    /\ UNCHANGED <<inputs, input_img, asmvars, loopvars>>

\* line 202: optimizer.step(); Adam moves each pixel by a bounded amount
\* that depends on the gradient history
OptStep ==
    /\ pc = "step"
    /\ \E d \in [1..NPix -> (0 - MaxDelta)..MaxDelta] :
          input_img' = [k \in 1..NPix |-> input_img[k] + d[k]]
    /\ grad' = "used"
    /\ nstep' = nstep + 1
    /\ pc' = "incr"
    /\ UNCHANGED <<inputs, asmvars, optimizer, step_i, style_score, content_score,
                   nclamp, nfwd, nbwd, stdout, error>>

\* lines 204-205: step_i += 1 and the test step_i % 50 == 0
Incr ==
    /\ pc = "incr"
    /\ step_i' = step_i + 1
    /\ pc' = IF step_i' % ReportEvery = 0 THEN "report" ELSE "while"
    /\ UNCHANGED <<inputs, input_img, asmvars, optimizer, grad, style_score,
                   content_score, counts, stdout, error>>

\* lines 206-209: the three prints, both scores being tensors
Report ==
    /\ pc = "report"
    /\ style_score.tensor /\ content_score.tensor
    /\ stdout' = stdout \o <<<<"run", step_i, 0>>, <<"loss", style_score.val, content_score.val>>>>
    /\ pc' = "while"
    /\ UNCHANGED <<inputs, input_img, asmvars, optimizer, grad, step_i, style_score,
                   content_score, counts, error>>

\* lines 206-208: 'run N:' is printed, then .item() is called on a score
\* that is still the int 0 (its list is empty): AttributeError
ReportRaise ==
    /\ pc = "report"
    /\ ~(style_score.tensor /\ content_score.tensor)
    /\ stdout' = Append(stdout, <<"run", step_i, 0>>)
    /\ pc' = "error"
    /\ error' = "AttributeError"
    /\ UNCHANGED <<inputs, input_img, asmvars, optimizer, grad, step_i, style_score,
                   content_score, counts>>

\* lines 185, 212-214: the loop test fails; the last clamp and the return
LoopExit ==
    /\ pc = "while"
    /\ ~LoopCond(step_i, num_steps)
    /\ input_img' = Clamp(input_img)
    /\ nclamp' = nclamp + 1
    /\ pc' = "done"
    /\ UNCHANGED <<inputs, asmvars, optimizer, grad, step_i, style_score,
                   content_score, nfwd, nbwd, nstep, stdout, error>>

Next ==
    \/ Begin
    \/ WalkLayer
    \/ WalkRaise
    \/ Trim
    \/ MakeOptimizer
    \/ LoopClamp
    \/ ZeroGrad
    \/ Forward
    \/ Aggregate
    \/ Backward
    \/ BackwardRaise
    \/ OptStep
    \/ Incr
    \/ Report
    \/ ReportRaise
    \/ LoopExit

Spec == Init /\ [][Next]_vars

(* ============================ the claims =============================== *)
Requested == content_layers \cup style_layers

\* number of convolution layers among the first k layers of the extractor
NumConv(k) == Cardinality({j \in 1..k : cnn[j] = "conv"})

\* the name the specification gives layer k: its kind and the number of
\* convolutions up to and including it
ExpectedName(k) == <<cnn[k], NumConv(k)>>

Matched == \E k \in 1..Len(cnn) : ExpectedName(k) \in Requested

KnownKinds == {"conv", "relu", "pool", "bn"}
HasUnknown == \E k \in 1..Len(cnn) : cnn[k] \notin KnownKinds

LastStage(m) == m[Len(m)]

TapIndexes(m) == {j \in 1..Len(m) : IsTap(m[j])}
LayerIndexes(m) == {j \in 1..Len(m) : m[j].mod.t = "layer"}
StagedTaps(m) == {m[j].mod.id : j \in TapIndexes(m)}
Listed(l) == {l[k] : k \in 1..Len(l)}

\* the pipeline without its taps
StripTaps(m) == SelectSeq(m, LAMBDA s : ~IsTap(s))

(* ------------------------------- C1 ------------------------------------ *)
\* C1 (as claimed): whenever at least one tap name was requested, the last
\* stage of the returned pipeline is a ContentLoss or StyleLoss tap, also
\* when the requested names match no layer of the extractor.
C1_LastStageIsTap ==
    (ret.returned /\ Requested # {}) => IsTap(LastStage(ret.model))

\* C1 (amended): whenever at least one requested name is the name of a layer
\* of the extractor, the last stage of the returned pipeline is a tap.
C1_LastStageIsTapWhenMatched ==
    (ret.returned /\ Matched) => IsTap(LastStage(ret.model))

\* a matching request whose pipeline ended in a borrowed layer before the trim
C1_Witness ==
    /\ ret.returned
    /\ Matched
    /\ Len(cnn) >= 2
    /\ ExpectedName(Len(cnn)) \notin Requested
    /\ Len(ret.model) < Len(cnn) + 1 + Len(taps)

(* ------------------------------- C5 ------------------------------------ *)
\* C5: in the returned pipeline the normalization stage is first, the
\* borrowed layers are the extractor's layers in their original order, every
\* tap sits right after the layer it was created for (only taps of that same
\* layer in between, content before style), and no stage follows the last tap.
C5_StageOrder ==
    ret.returned =>
        LET m == ret.model IN
        /\ m[1].mod.t = "norm"
        /\ \A j \in 2..Len(m) : m[j].mod.t # "norm"
        /\ \A j \in LayerIndexes(m) :
              /\ m[j].mod.src = Cardinality({k \in LayerIndexes(m) : k <= j})
              /\ m[j].mod.kind = cnn[m[j].mod.src]
        /\ \A j \in TapIndexes(m) :
              /\ \E k \in LayerIndexes(m) :
                    /\ k < j
                    /\ \A l \in (k + 1)..(j - 1) : IsTap(m[l])
                    /\ m[k].mod.src = m[j].mod.src
              /\ (m[j].mod.kind = "content" /\ IsTap(m[j - 1]))
                    => m[j - 1].mod.kind = "content"
        /\ (TapIndexes(m) # {}) => IsTap(LastStage(m))

(* ------------------------------- C6 ------------------------------------ *)
\* C6: every tap of the returned style-loss and content-loss lists is a
\* stage of the returned pipeline, every tap stage is in exactly one of the
\* lists, and the number of tap stages is the total length of the lists.
C6_ListsAreStages ==
    ret.returned =>
        /\ Listed(ret.style_losses) \cup Listed(ret.content_losses) = StagedTaps(ret.model)
        /\ Listed(ret.style_losses) \cap Listed(ret.content_losses) = {}
        /\ Cardinality(TapIndexes(ret.model))
              = Len(ret.style_losses) + Len(ret.content_losses)

(* ------------------------------- C7 ------------------------------------ *)
\* C7: during the layer walk the running index is the number of convolution
\* layers walked so far (0 at the start, one more per convolution, unchanged
\* by every other kind), and each layer's name is its kind followed by the
\* index current at that layer.
C7_RunningIndex ==
    /\ pc = "walk" => (i = NumConv(pos - 1) /\ Len(names) = pos - 1)
    /\ \A k \in 1..Len(names) : names[k] = ExpectedName(k)

\* an activation shares the index of the convolution before it, and the
\* second convolution is conv_2
C7_Witness ==
    /\ pc = "walk"
    /\ \E k \in 1..Len(names) : names[k] = <<"relu", 1>>
    /\ \E k \in 1..Len(names) : names[k] = <<"conv", 2>>

(* ------------------------------- C4 ------------------------------------ *)
\* C4: an extractor with a layer of an unknown kind makes
\* get_style_model_and_losses raise at the first such layer and return
\* nothing; through run_style_transfer the error comes before the optimizer
\* exists and before any clamp, forward pass or update of the output image.
C4_UnknownLayerRaises ==
    /\ HasUnknown =>
          /\ ~ret.returned
          /\ pc \in {"begin", "walk", "error"}
          /\ ~optimizer
          /\ nclamp = 0 /\ nfwd = 0 /\ nbwd = 0 /\ nstep = 0
          /\ pc = "walk" => \A k \in 1..(pos - 1) : cnn[k] \in KnownKinds
    /\ error = "RuntimeError" =>
          /\ pc = "error"
          /\ cnn[pos] \notin KnownKinds
          /\ \A k \in 1..(pos - 1) : cnn[k] \in KnownKinds

\* the raise came after a tap had already been built for an earlier layer
C4_Witness ==
    /\ pc = "error"
    /\ error = "RuntimeError"
    /\ pos > 1
    /\ Len(content_losses) + Len(style_losses) > 0
    /\ ~ret.returned

(* ------------------------------- C2 ------------------------------------ *)
\* C2 (as claimed): after every completed iteration of the loop, and in the
\* returned image, all pixel values lie within [0,1].
C2_InRangeAfterEveryIteration ==
    (entry = "run" /\ nstep > 0 /\ pc \in {"incr", "report", "while", "done"})
        => InRange(input_img)

\* C2 (amended): the returned image has all pixel values within [0,1], and
\* so has the image from the clamp that opens an iteration up to that
\* iteration's optimizer step.
C2_InRangeWhenReturnedAndAfterClamp ==
    /\ (entry = "run" /\ pc = "done") => InRange(input_img)
    /\ pc \in {"zero_grad", "forward", "aggregate", "backward", "step"}
          => InRange(input_img)

\* a returned image, after at least two updates, with a pixel on the lower edge
C2_Witness ==
    /\ entry = "run"
    /\ pc = "done"
    /\ nstep >= 2
    /\ \E k \in 1..NPix : input_img[k] = 0

(* ------------------------------- C3 ------------------------------------ *)
\* C3: with iteration budget N >= 0 run_style_transfer returns after exactly
\* N+1 forward / backward / optimizer-step cycles (one cycle for N = 0),
\* having clamped the image, and it never does more than N+1 cycles.
C3_BudgetPlusOneCycles ==
    /\ (entry = "run" /\ pc = "done") =>
          /\ nfwd = num_steps + 1
          /\ nbwd = num_steps + 1
          /\ nstep = num_steps + 1
          /\ step_i = num_steps + 1
          /\ InRange(input_img)
    /\ nfwd <= num_steps + 1 /\ nbwd <= nfwd /\ nstep <= nbwd
    /\ step_i <= num_steps + 1

\* the budget 0 run has returned after its single cycle
C3_Witness ==
    /\ entry = "run"
    /\ pc = "done"
    /\ num_steps = 0
    /\ nfwd = 1 /\ nbwd = 1 /\ nstep = 1

(* ------------------------------- C10 ----------------------------------- *)
\* C10: in every iteration the steps come in the order clamp, gradient
\* reset, forward pass, loss aggregation, backward pass, optimizer step; so
\* every forward pass reads an image within [0,1], and an optimizer step has
\* a forward and a backward pass of its own behind it.
C10_StepOrder ==
    /\ pc \in {"zero_grad", "forward", "aggregate", "backward", "step"}
          => (nclamp = nstep + 1 /\ InRange(input_img))
    /\ pc \in {"zero_grad", "forward"} => (nfwd = nstep /\ nbwd = nstep)
    /\ pc = "forward" => grad = "none"
    /\ pc \in {"aggregate", "backward"} =>
          (nfwd = nstep + 1 /\ nbwd = nstep /\ grad = "none")
    /\ pc = "backward" =>
          /\ style_score = SumLosses(ret.style_losses, taps)
          /\ content_score = SumLosses(ret.content_losses, taps)
    /\ pc = "step" => (nfwd = nstep + 1 /\ nbwd = nstep + 1 /\ grad = "fresh")
    /\ pc \in {"incr", "report"} =>
          (nclamp = nstep /\ nfwd = nstep /\ nbwd = nstep /\ grad = "used")

\* the last forward pass of a run of several iterations, about to read an
\* image with a pixel on an edge of the range
C10_Witness ==
    /\ pc = "forward"
    /\ num_steps >= 1
    /\ nstep = num_steps
    /\ \E k \in 1..NPix : input_img[k] \in {0, PixMax}

(* ------------------------------- C8 ------------------------------------ *)
\* the pipeline in use: the one under construction, then the returned one
Pipeline == IF ret.returned THEN ret.model ELSE model

\* the images the code sends through it: the content and the style image
\* during assembly, the output image in the loop
Passed == IF ret.returned THEN {input_img} ELSE {ContentImg, StyleImg}

\* what the pipeline hands on is what it hands on with its taps taken out
PassThrough ==
    \A img \in Passed :
        ModelCall(Pipeline, img, taps).out = ModelCall(StripTaps(Pipeline), img, taps).out

\* C8: a forward call of a ContentLoss or StyleLoss tap returns its input
\* unchanged and changes only that tap's stored loss: no step ever changes
\* the target of a tap, the forward pass of the loop changes nothing but the
\* losses of the taps staged in the pipeline, and the value that leaves a
\* pipeline is the value that leaves it with the taps taken out.
C8_TapPassThrough ==
    /\ []PassThrough
    /\ [][/\ Len(taps') >= Len(taps)
          /\ \A id \in 1..Len(taps) :
                /\ taps'[id].target = taps[id].target
                /\ taps'[id].type = taps[id].type
                /\ id \notin StagedTaps(model) => taps'[id] = taps[id]
          /\ pc = "forward" =>
                /\ UNCHANGED <<input_img, model, ret, content_losses, style_losses>>
                /\ \A id \in 1..Len(taps) :
                      /\ [taps'[id] EXCEPT !.loss = taps[id].loss] = taps[id]
                      /\ id \in StagedTaps(ret.model) => taps'[id].loss.set
         ]_vars

\* the second forward pass of the loop has gone through a content tap and
\* the style tap behind it, and left a loss that is not zero
C8_Witness ==
    /\ pc = "aggregate"
    /\ nfwd >= 2
    /\ Cardinality(TapIndexes(ret.model)) = 2
    /\ \E id \in StagedTaps(ret.model) : taps[id].loss.set /\ taps[id].loss.val > 0

(* ------------------------------- C9 ------------------------------------ *)
\* C9: the scores are reported exactly when the count of completed
\* iterations is a positive multiple of 50, and the report changes nothing
\* but the output: after it the loop goes on with the same image, the same
\* count and no error, for every budget and every choice of tap names.
C9_ReportHasNoEffect ==
    [][/\ pc = "incr" => ((pc' = "report") <=> ((step_i + 1) % ReportEvery = 0))
       /\ pc = "report" =>
             /\ pc' = "while"
             /\ error' = "none"
             /\ Len(stdout') = Len(stdout) + 2
             /\ UNCHANGED <<input_img, step_i, taps, ret, grad, counts>>
      ]_vars


=============================================================================
